---- MODULE Spec2Model ----
(***************************************************************************)
(* A model of the STK kit packer (stkpack.py) and of the WAV extractor     *)
(* (extract_wavs.py).                                                      *)
(*                                                                         *)
(* Byte strings.  A Python bytes value is modelled run-length encoded: a   *)
(* sequence of runs <<b, e>>, b the byte value (0..255) of the run and e   *)
(* the offset just past the run's last byte.  The encoding is canonical    *)
(* (ends strictly increase, adjacent runs hold different bytes), so two    *)
(* byte strings are equal exactly when their encodings are equal.  Offsets *)
(* are zero-based, as in Python.                                           *)
(***************************************************************************)
EXTENDS Integers, Sequences, FiniteSets, TLC

Min(a, b) == IF a < b THEN a ELSE b

Max(a, b) == IF a > b THEN a ELSE b

\* the sequence f as a tuple (evaluated once, not at each use)
Tup(f) == <<>> \o f

\* len(x)
BLen(x) == IF x = <<>> THEN 0 ELSE x[Len(x)][2]

RunStart(x, k) == IF k = 1 THEN 0 ELSE x[k - 1][2]

RECURSIVE RunIn(_, _, _, _)
\* the run among runs lo..hi that holds offset i, by bisection
RunIn(x, i, lo, hi) ==
  IF lo >= hi THEN lo
  ELSE LET mid == (lo + hi) \div 2
       IN  IF i < x[mid][2] THEN RunIn(x, i, lo, mid) ELSE RunIn(x, i, mid + 1, hi)

\* the run that holds offset i, 0 <= i < len(x)
RunOf(x, i) == RunIn(x, i, 1, Len(x))

\* x[i], 0 <= i < len(x)
BAt(x, i) == x[RunOf(x, i)][1]

\* bytes([b]) * n
Fill(b, n) == IF n <= 0 THEN <<>> ELSE << <<b, n>> >>

\* x + y
BCat(x, y) ==
  IF x = <<>> THEN y
  ELSE IF y = <<>> THEN x
  ELSE LET n == BLen(x)
           shifted == [k \in 1..Len(y) |-> <<y[k][1], y[k][2] + n>>]
       IN  IF x[Len(x)][1] = y[1][1]
           THEN SubSeq(x, 1, Len(x) - 1) \o shifted
           ELSE x \o shifted

RECURSIVE Cat(_)
\* the concatenation of a sequence of byte strings
Cat(xs) == IF xs = <<>> THEN <<>> ELSE BCat(Cat(SubSeq(xs, 1, Len(xs) - 1)), xs[Len(xs)])

RECURSIVE BytesOf(_, _, _)
\* the byte string of s[lo..hi], by halves
BytesOf(s, lo, hi) ==
  IF lo > hi THEN <<>>
  ELSE IF lo = hi THEN Fill(s[lo], 1)
  ELSE LET mid == (lo + hi) \div 2
       IN  BCat(BytesOf(s, lo, mid), BytesOf(s, mid + 1, hi))

\* bytes(s), s a sequence of byte values
Bytes(s) == BytesOf(s, 1, Len(s))

\* list(x), for short byte strings
ToSeq(x) == Tup([i \in 1..BLen(x) |-> BAt(x, i - 1)])

\* x[lo:hi] for lo, hi >= 0: a Python slice is clamped to the string
BSlice(x, lo, hi) ==
  LET l == Min(lo, BLen(x))
      h == Min(hi, BLen(x))
  IN  IF l >= h THEN <<>>
      ELSE LET kl == RunOf(x, l)
               kh == RunOf(x, h - 1)
           IN  Tup([k \in 1..(kh - kl + 1) |-> <<x[kl + k - 1][1], Min(x[kl + k - 1][2], h) - l>>])

\* x[lo:]
BFrom(x, lo) == BSlice(x, lo, BLen(x))

\* bytearray slice assignment buf[lo:hi] = data
Splice(buf, lo, hi, data) ==
  LET l == Min(lo, BLen(buf))
      h == Max(l, Min(hi, BLen(buf)))
  IN  BCat(BCat(BSlice(buf, 0, l), data), BFrom(buf, h))

\* struct.pack('<I', n)
LE32(n) == Bytes(<<n % 256, (n \div 256) % 256, (n \div 65536) % 256, (n \div 16777216) % 256>>)

\* struct.pack('<H', n)
LE16(n) == Bytes(<<n % 256, (n \div 256) % 256>>)

\* struct.pack('<h', n): two's complement
LE16s(n) == LE16((n + 65536) % 65536)

\* struct.pack('<b', n): two's complement
I8(n) == Fill((n + 256) % 256, 1)

\* struct.unpack('<I', x)[0], len(x) = 4
U32(x) == BAt(x, 0) + 256 * BAt(x, 1) + 65536 * BAt(x, 2) + 16777216 * BAt(x, 3)

\* struct.unpack('<H', x)[0], len(x) = 2
U16(x) == BAt(x, 0) + 256 * BAt(x, 1)

(***************************************************************************)
(* Tags and constants of stkpack.py.                                       *)
(***************************************************************************)
RIFF == Bytes(<<82, 73, 70, 70>>)

WAVE == Bytes(<<87, 65, 86, 69>>)

FMT_TAG == Bytes(<<102, 109, 116, 32>>)

DATA_TAG == Bytes(<<100, 97, 116, 97>>)

ISDT == Bytes(<<73, 83, 68, 84>>)

KTDT_SIZE == 4228

MAGIC == Bytes(<<86, 68, 75, 48, 80, 82, 32, 0>>)

KTDT_TAG == Bytes(<<75, 84, 68, 84>>)

TARGET_RATE == 48000

TARGET_WIDTH == 2

\* b"cue \x1c\0\0\0" + b"\1\0\0\0\1\0\0\0\0\0\0\0" + b"data" + 12 zero bytes
CUE_CHUNK ==
  Cat(<<Bytes(<<99, 117, 101, 32, 28, 0, 0, 0>>),
        Bytes(<<1, 0, 0, 0, 1, 0, 0, 0, 0, 0, 0, 0>>),
        DATA_TAG, Fill(0, 12)>>)

\* b"LIST\x1e\0\0\0" + b"adtllabl\x12\0\0\0\1\0\0\0" + b"Tempo: 000.0\0\0"
LIST_CHUNK ==
  Cat(<<Bytes(<<76, 73, 83, 84, 30, 0, 0, 0>>),
        Bytes(<<97, 100, 116, 108, 108, 97, 98, 108, 18, 0, 0, 0, 1, 0, 0, 0>>),
        Bytes(<<84, 101, 109, 112, 111, 58, 32, 48, 48, 48, 46, 48, 0, 0>>)>>)

KTDT_FOOTER == BCat(Fill(0, 8), Bytes(<<100, 0, 0, 0>>))

(***************************************************************************)
(* The standard library's wave and audioop modules, as _to_pcm16_48k uses  *)
(* them.                                                                   *)
(***************************************************************************)
WAVE_FORMAT_PCM == 1

NoWave == [ok |-> FALSE]

\* wave.Wave_read._read_fmt_chunk: the chunk body starts at offset at
ReadFmt(raw, at) ==
  [tag |-> U16(BSlice(raw, at, at + 2)),
   nch |-> U16(BSlice(raw, at + 2, at + 4)),
   fr |-> U32(BSlice(raw, at + 4, at + 8)),
   sampwidth |-> (U16(BSlice(raw, at + 14, at + 16)) + 7) \div 8]

RECURSIVE ReadChunks(_, _, _, _)
\* wave.Wave_read.initfp, the chunk loop: pos is the next chunk's offset, limit
\* the end of the RIFF form, fmt the format chunk read so far (<<>>: none).  The
\* result carries what getnchannels, getsampwidth, getframerate, getnframes,
\* getcomptype and readframes(nframes) return.
ReadChunks(raw, pos, limit, fmt) ==
  IF pos + 8 > limit THEN NoWave
  ELSE LET name == BSlice(raw, pos, pos + 4)
           chunksize == U32(BSlice(raw, pos + 4, pos + 8))
           skip == pos + 8 + chunksize + (chunksize % 2)
       IN  IF name = FMT_TAG
           THEN IF pos + 24 > limit THEN NoWave
                ELSE LET f == ReadFmt(raw, pos + 8)
                     IN  IF f.tag # WAVE_FORMAT_PCM \/ f.sampwidth = 0 \/ f.nch = 0
                         THEN NoWave
                         ELSE ReadChunks(raw, skip, limit, <<f>>)
           ELSE IF name = DATA_TAG
           THEN IF fmt = <<>> THEN NoWave
                ELSE LET f == fmt[1]
                         framesize == f.nch * f.sampwidth
                         nframes == chunksize \div framesize
                     IN  [ok |-> TRUE, nch |-> f.nch, sampwidth |-> f.sampwidth,
                          fr |-> f.fr, nframes |-> nframes, comp |-> "NONE",
                          frames |-> BSlice(raw, pos + 8,
                                            Min(pos + 8 + Min(nframes * framesize, chunksize), limit))]
           ELSE ReadChunks(raw, skip, limit, fmt)

\* wave.open(io.BytesIO(raw), 'rb') and the getters of lines 98-105
WaveRead(raw) ==
  IF BLen(raw) < 12 \/ BSlice(raw, 0, 4) # RIFF \/ BSlice(raw, 8, 12) # WAVE THEN NoWave
  ELSE ReadChunks(raw, 12, Min(BLen(raw), 8 + U32(BSlice(raw, 4, 8))), <<>>)

\* wave.open(out_b, 'wb') ... writeframes(frames): the 44-byte header, patched
\* to the data written, and the data
WaveWrite(nch, sampwidth, rate, frames) ==
  Cat(<<RIFF, LE32(36 + BLen(frames)), WAVE,
        FMT_TAG, LE32(16), LE16(WAVE_FORMAT_PCM), LE16(nch), LE32(rate),
        LE32(nch * rate * sampwidth), LE16(nch * sampwidth), LE16(sampwidth * 8),
        DATA_TAG, LE32(BLen(frames)), frames>>)

\* audioop.lin2lin(frames, width, 2): each sample keeps its two most significant
\* bytes; an 8-bit sample becomes the high byte over a zero low byte
lin2lin(frames, width) ==
  LET s == ToSeq(frames)
      n == Len(s) \div width
  IN  Bytes(Tup([j \in 1..(2 * n) |->
        LET k == (j - 1) \div 2
            hi == (j - 1) % 2
        IN  IF width = 1 THEN (IF hi = 0 THEN 0 ELSE s[k + 1])
            ELSE s[k * width + (width - 2) + hi + 1]]))

\* the signed 16-bit little-endian samples of frames
Samples(frames) ==
  LET s == ToSeq(frames)
  IN  Tup([k \in 1..(Len(s) \div 2) |->
        LET u == s[2 * k - 1] + 256 * s[2 * k]
        IN  IF u >= 32768 THEN u - 65536 ELSE u])

\* the bytes of a sequence of signed 16-bit samples
FromSamples(v) ==
  Bytes(Tup([j \in 1..(2 * Len(v)) |->
    LET u == (v[(j + 1) \div 2] + 65536) % 65536
    IN  IF j % 2 = 1 THEN u % 256 ELSE u \div 256]))

\* audioop.tomono(frames, 2, 1/nch, 1/nch): floor(l * (1/nch) + r * (1/nch)) for
\* each pair of samples (exact for nch = 2)
tomono(frames, nch) ==
  LET v == Samples(frames)
  IN  FromSamples([k \in 1..(Len(v) \div 2) |-> (v[2 * k - 1] + v[2 * k]) \div nch])

\* audioop.tostereo(frames, 2, 1, 1): each sample twice
tostereo(frames) ==
  LET v == Samples(frames)
  IN  FromSamples([k \in 1..(2 * Len(v)) |-> v[(k + 1) \div 2]])

RECURSIVE gcd(_, _)
gcd(a, b) == IF b = 0 THEN a ELSE gcd(b, a % b)

RECURSIVE RatecvLoop(_, _, _, _, _, _, _, _, _)
\* audioop.ratecv's loop over the input frames v (frame k is samples
\* (k-1)*nch+1 .. k*nch): while d < 0 a frame is consumed, while d >= 0 an
\* interpolated frame is produced.  The C code scales samples by 2^16, divides
\* truncating and scales back flooring, which for 16-bit samples is the floor
\* of the unscaled quotient.
RatecvLoop(v, nch, k, d, prev, cur, inrate, outrate, out) ==
  IF d < 0
  THEN IF k * nch > Len(v) THEN out
       ELSE RatecvLoop(v, nch, k + 1, d + outrate, cur,
                       [c \in 1..nch |-> v[(k - 1) * nch + c]], inrate, outrate, out)
  ELSE RatecvLoop(v, nch, k, d - inrate, prev, cur, inrate, outrate,
                  out \o [c \in 1..nch |-> (prev[c] * d + cur[c] * (outrate - d)) \div outrate])

\* audioop.ratecv(frames, 2, nch, inrate, outrate, None)[0]
ratecv(frames, nch, inrate, outrate) ==
  LET g == gcd(inrate, outrate)
      zero == [c \in 1..nch |-> 0]
  IN  FromSamples(RatecvLoop(Samples(frames), nch, 1, 0 - (outrate \div g), zero, zero,
                             inrate \div g, outrate \div g, <<>>))

(***************************************************************************)
(* _to_pcm16_48k                                                           *)
(***************************************************************************)
Raised == [ok |-> FALSE, wav |-> <<>>]

\* bit depth, were every file taken for 8-bit
ToWidth_Bytes(r) == lin2lin(r.frames, 1)

\* lines 107-110: bit depth
ToWidth(r) == IF r.sampwidth # TARGET_WIDTH THEN lin2lin(r.frames, r.sampwidth) ELSE r.frames

\* lines 112-125: channels
ToChannels(frames, nch, target_channels) ==
  IF nch # target_channels
  THEN IF target_channels = 1 THEN tomono(frames, nch)
       ELSE IF target_channels = 2 /\ nch = 1 THEN tostereo(frames)
       ELSE tostereo(tomono(frames, nch))
  ELSE frames

\* lines 127-131: sample rate
ToRate(frames, nch, fr) ==
  IF fr # TARGET_RATE THEN ratecv(frames, nch, fr, TARGET_RATE) ELSE frames

\* the rebuilt file, were the RIFF size of the 44-byte-header file kept
Rebuild_Stale(orig) ==
  Cat(<<BSlice(orig, 0, 12), BSlice(orig, 12, 12 + 24), CUE_CHUNK, LIST_CHUNK,
        BSlice(orig, 12 + 24, 12 + 24 + 8), BFrom(orig, 12 + 24 + 8)>>)

\* lines 141-157: fmt, cue, LIST, then data, under a recomputed RIFF size
Rebuild(orig) ==
  LET fmt_chunk == BSlice(orig, 12, 12 + 24)
      data_tag_size == BSlice(orig, 12 + 24, 12 + 24 + 8)
      audio_data == BFrom(orig, 12 + 24 + 8)
      new_riff_size == 4 + BLen(fmt_chunk) + BLen(CUE_CHUNK) + BLen(LIST_CHUNK)
                         + BLen(data_tag_size) + BLen(audio_data)
  IN  Cat(<<RIFF, LE32(new_riff_size), WAVE, fmt_chunk, CUE_CHUNK, LIST_CHUNK,
            data_tag_size, audio_data>>)

to_pcm16_48k(raw, target_channels) ==
  LET r == WaveRead(raw)
  IN  IF ~r.ok THEN Raised
      ELSE IF r.comp # "NONE" THEN Raised
      ELSE LET frames == ToRate(ToChannels(ToWidth(r), r.nch, target_channels),
                                target_channels, r.fr)
           IN  [ok |-> TRUE,
                wav |-> Rebuild(WaveWrite(target_channels, TARGET_WIDTH, TARGET_RATE, frames))]

(***************************************************************************)
(* The packer: _get_param_suffix, _pick_samples, _make_paths, _build_ktdt, *)
(* _write_stk.                                                             *)
(***************************************************************************)
KIT_SLOTS == 15

ENTRY_SIZE == 280

PATH_SIZE == 256

ISDT_EXTRA == 18

\* int(x / y) for y > 0: Python's int() truncates toward zero
TruncDiv(x, y) == IF x >= 0 THEN x \div y ELSE 0 - ((0 - x) \div y)

\* pitch_units = int(pitch * 256 / 100)
PitchUnits(pitch) == TruncDiv(pitch * 256, 100)

get_param_suffix(volume, pitch, pan, fx_send) ==
  Cat(<<I8(volume), I8(pan), Fill(0, 2),
        Fill(0, 12),
        Fill(fx_send, 1), LE16s(PitchUnits(pitch)), Fill(0, 1),
        Fill(0, 4)>>)

\* the last index of a shortest element
MinIdx_Last(converted) ==
  CHOOSE i \in 1..Len(converted) :
    /\ \A j \in 1..Len(converted) : BLen(converted[i]) <= BLen(converted[j])
    /\ \A j \in (i + 1)..Len(converted) : BLen(converted[j]) > BLen(converted[i])

\* min(range(len(converted)), key=lambda i: len(converted[i])): the first index
\* (1-based here) of a shortest element
MinIdx(converted) ==
  CHOOSE i \in 1..Len(converted) :
    /\ \A j \in 1..Len(converted) : BLen(converted[i]) <= BLen(converted[j])
    /\ \A j \in 1..(i - 1) : BLen(converted[j]) > BLen(converted[i])

\* str(n).encode() for 0 <= n < 100
Digits(n) == IF n < 10 THEN Fill(48 + n, 1) ELSE BCat(Fill(48 + (n \div 10), 1), Fill(48 + (n % 10), 1))

\* f"{smallest_name}_pad{n}"
PadName(smallest_name, n) == Cat(<<smallest_name, Bytes(<<95, 112, 97, 100>>), Digits(n)>>)

\* the lists, were the padding to run one position too far
PadSamples_Sixteen(conv, nms) ==
  LET min_idx == MinIdx(conv)
  IN  [wavs |-> Tup([i \in 1..(KIT_SLOTS + 1) |-> IF i <= Len(conv) THEN conv[i] ELSE conv[min_idx]]),
       names |-> Tup([i \in 1..(KIT_SLOTS + 1) |->
                        IF i <= Len(nms) THEN nms[i] ELSE PadName(nms[min_idx], i)])]

\* lines 180-194: the lists as _pick_samples returns them
PadSamples(conv, nms) ==
  IF Len(conv) < KIT_SLOTS
  THEN LET min_idx == MinIdx(conv)
           smallest == conv[min_idx]
           smallest_name == nms[min_idx]
       IN  [wavs |-> Tup([i \in 1..KIT_SLOTS |-> IF i <= Len(conv) THEN conv[i] ELSE smallest]),
            names |-> Tup([i \in 1..KIT_SLOTS |->
                             IF i <= Len(nms) THEN nms[i] ELSE PadName(smallest_name, i)])]
  ELSE [wavs |-> SubSeq(conv, 1, KIT_SLOTS), names |-> SubSeq(nms, 1, KIT_SLOTS)]

\* b"SmplTrek/Pool/Audio/Drum/"
ROOT ==
  Bytes(<<83, 109, 112, 108, 84, 114, 101, 107, 47, 80, 111, 111, 108, 47,
          65, 117, 100, 105, 111, 47, 68, 114, 117, 109, 47>>)

\* f"{root_str}/{name}.wav".encode('utf-8') + b"\x00"
MakePath(ttl, name) ==
  Cat(<<ROOT, ttl, Fill(47, 1), name, Bytes(<<46, 119, 97, 118>>), Fill(0, 1)>>)

make_paths(ttl, nms) == Tup([i \in 1..Len(nms) |-> MakePath(ttl, nms[i])])

\* the path, were it stored whole
TruncatePath_Whole(path) == path

\* lines 220-221
TruncatePath(path) ==
  IF BLen(path) > PATH_SIZE THEN BCat(BSlice(path, 0, PATH_SIZE - 1), Fill(0, 1)) ELSE path

\* lines 224-230: params is <<>> (None) or a list of parameter records
EntrySuffix(prm, i) ==
  IF prm # <<>> /\ i < Len(prm)
  THEN get_param_suffix(prm[i + 1].volume, prm[i + 1].pitch, prm[i + 1].pan, prm[i + 1].fx_send)
  ELSE get_param_suffix(100, 0, 0, 0)

\* lines 218-231: one pass of the loop, for entry i (zero-based)
PutEntry(buf, paths, prm, i) ==
  LET off == i * ENTRY_SIZE
      path == TruncatePath(paths[i + 1])
      withPath == Splice(buf, off, off + BLen(path), path)
  IN  Splice(withPath, off + PATH_SIZE, off + PATH_SIZE + 24, EntrySuffix(prm, i))

RECURSIVE PutEntries(_, _, _, _)
\* the loop of lines 217-231 over entries 0 .. n-1
PutEntries(buf, paths, prm, n) ==
  IF n = 0 THEN buf
  ELSE LET done == PutEntries(buf, paths, prm, n - 1)
       IN  IF BLen(done) >= 0 THEN PutEntry(done, paths, prm, n - 1) ELSE done

\* the block, were every index that of the first payload
IsdtBlock_First(wav_len, index) == Cat(<<ISDT, LE32(wav_len + ISDT_EXTRA), LE32(0), LE32(1)>>)

\* b"ISDT" + size + index + b"\x01\x00\x00\x00"
IsdtBlock(wav_len, index) == Cat(<<ISDT, LE32(wav_len + ISDT_EXTRA), LE32(index), LE32(1)>>)

build_ktdt(paths, first_wav_len, prm) ==
  LET entries == PutEntries(Fill(0, KTDT_SIZE), paths, prm, KIT_SLOTS)
      footed == Splice(entries, 4200, 4200 + 12, KTDT_FOOTER)
  IN  Splice(footed, 4212, 4212 + 16, IsdtBlock(first_wav_len, 0))

\* lines 323-329
StkHeader ==
  Cat(<<MAGIC, Fill(0, 4), LE32(16), KTDT_TAG, LE32(KTDT_SIZE), Fill(0, 4), LE32(1)>>)

\* lines 337-353: what the loop writes for wavs[i] (zero-based i)
StkSample(ws, i) ==
  BCat(IF i = 0 THEN ws[1]
       ELSE Cat(<<Fill(0, 2), IsdtBlock(BLen(ws[i + 1]), i), ws[i + 1]>>),
       IF i = Len(ws) - 1 THEN Fill(0, 2) ELSE <<>>)

\* the bytes _write_stk writes to out_path
write_stk(ktdt_body, ws) ==
  Cat(<<StkHeader, ktdt_body>> \o [i \in 1..Len(ws) |-> StkSample(ws, i - 1)])

(***************************************************************************)
(* State.                                                                  *)
(*   pc          where the run is: "pick", "convert", "customize", "build",*)
(*               "write", "packed" (main returned), "exit" (SystemExit),   *)
(*               then extract_wavs: "scan", "done", "fault" (an uncaught   *)
(*               struct.error), "nofile"; "norm" is where SpecNorm, below, *)
(*               calls _to_pcm16_48k                                       *)
(*   files       args.files: records [raw, stem]                           *)
(*   channels    args.channels                                             *)
(*   customize   args.customize                                            *)
(*   title       args.title, encoded                                       *)
(*   converted, names   the lists of _pick_samples, then main's wavs, names*)
(*   params      None (<<>>) or the list _customize_samples returns        *)
(*   ktdt        the KTDT body                                             *)
(*   stk_exists, stk    the kit file on disk                               *)
(*   audio_data, pos, count   extract_wavs' locals                         *)
(*   outs        the sample_NN.wav files written, in order                 *)
(***************************************************************************)
VARIABLES pc, files, channels, customize, title, converted, names, params, ktdt,
          stk_exists, stk, audio_data, pos, count, outs

vars == <<pc, files, channels, customize, title, converted, names, params, ktdt,
          stk_exists, stk, audio_data, pos, count, outs>>

packVars == <<files, channels, customize, title, converted, names, params, ktdt>>

scanVars == <<audio_data, pos, count, outs>>

\* selected = files[:15]
Selected == SubSeq(files, 1, Min(Len(files), KIT_SLOTS))

(***************************************************************************)
(* main and _pick_samples                                                  *)
(***************************************************************************)
\* lines 162-170
PickSelect ==
  /\ pc = "pick"
  /\ pc' = IF files # <<>> THEN "convert" ELSE "exit"
  /\ UNCHANGED <<packVars, scanVars, stk_exists, stk>>

\* one pass of the loop, were a file that cannot be normalized packed as it is
Convert_Anyway ==
  /\ pc = "convert"
  /\ Len(converted) < Len(Selected)
  /\ LET p == Selected[Len(converted) + 1]
         r == to_pcm16_48k(p.raw, channels)
     IN  /\ converted' = Append(converted, IF r.ok THEN r.wav ELSE p.raw)
         /\ names' = Append(names, p.stem)
         /\ pc' = pc
  /\ UNCHANGED <<files, channels, customize, title, params, ktdt, scanVars, stk_exists, stk>>

\* lines 175-178, one pass of the loop; an exception leaves through lines 384-385
Convert ==
  /\ pc = "convert"
  /\ Len(converted) < Len(Selected)
  /\ LET p == Selected[Len(converted) + 1]
         r == to_pcm16_48k(p.raw, channels)
     IN  IF r.ok
         THEN /\ converted' = Append(converted, r.wav)
              /\ names' = Append(names, p.stem)
              /\ pc' = pc
         ELSE /\ pc' = "exit"
              /\ UNCHANGED <<converted, names>>
  /\ UNCHANGED <<files, channels, customize, title, params, ktdt, scanVars, stk_exists, stk>>

\* lines 180-194 and the return to main
Pad ==
  /\ pc = "convert"
  /\ Len(converted) = Len(Selected)
  /\ LET r == PadSamples(converted, names)
     IN  /\ converted' = r.wavs
         /\ names' = r.names
  /\ pc' = IF customize THEN "customize" ELSE "build"
  /\ UNCHANGED <<files, channels, customize, title, params, ktdt, scanVars, stk_exists, stk>>

\* lines 388-393: the values typed at the prompts of _customize_samples
ParamChoices ==
  {[volume |-> 80, pitch |-> 0 - 1, pan |-> 0 - 3, fx_send |-> 5],
   [volume |-> 0, pitch |-> 1200, pan |-> 63, fx_send |-> 127]}

Customize ==
  /\ pc = "customize"
  /\ \E r \in ParamChoices : params' = [i \in 1..Len(converted) |-> r]
  /\ pc' = "build"
  /\ UNCHANGED <<files, channels, customize, title, converted, names, ktdt, scanVars,
                 stk_exists, stk>>

\* lines 396-401
BuildKtdt ==
  /\ pc = "build"
  /\ ktdt' = build_ktdt(make_paths(title, names),
                        IF converted # <<>> THEN BLen(converted[1]) ELSE 0, params)
  /\ pc' = "write"
  /\ UNCHANGED <<files, channels, customize, title, converted, names, params, scanVars,
                 stk_exists, stk>>

\* lines 403-415
WriteStk ==
  /\ pc = "write"
  /\ stk_exists' = TRUE
  /\ stk' = write_stk(ktdt, converted)
  /\ pc' = "packed"
  /\ UNCHANGED <<packVars, scanVars>>

(***************************************************************************)
(* extract_wavs                                                            *)
(***************************************************************************)
AUDIO_OFFSET == 4260

\* lines 46-60
ExtractOpen ==
  /\ pc \in {"packed", "exit"}
  /\ IF stk_exists
     THEN /\ audio_data' = BFrom(stk, AUDIO_OFFSET)
          /\ pos' = 0
          /\ count' = 0
          /\ outs' = <<>>
          /\ pc' = "scan"
     ELSE /\ pc' = "nofile"
          /\ UNCHANGED scanVars
  /\ UNCHANGED <<packVars, stk_exists, stk>>

\* line 63
AtRiff == BSlice(audio_data, pos, pos + 4) = RIFF

\* lines 63-76: a signature with its four length bytes
ScanEmit ==
  /\ pc = "scan"
  /\ pos < BLen(audio_data)
  /\ AtRiff
  /\ BLen(BSlice(audio_data, pos + 4, pos + 8)) = 4
  /\ LET size == U32(BSlice(audio_data, pos + 4, pos + 8))
         total_size == size + 8
     IN  /\ outs' = Append(outs, BSlice(audio_data, pos, pos + total_size))
         /\ pos' = pos + total_size
  /\ count' = count + 1
  /\ pc' = IF count' >= KIT_SLOTS THEN "done" ELSE "scan"
  /\ UNCHANGED <<packVars, stk_exists, stk, audio_data>>

\* line 65: struct.unpack of fewer than four bytes raises struct.error
ScanFault ==
  /\ pc = "scan"
  /\ pos < BLen(audio_data)
  /\ AtRiff
  /\ BLen(BSlice(audio_data, pos + 4, pos + 8)) < 4
  /\ pc' = "fault"
  /\ UNCHANGED <<packVars, stk_exists, stk, scanVars>>

\* lines 77-81
ScanSkip ==
  /\ pc = "scan"
  /\ pos < BLen(audio_data)
  /\ ~AtRiff
  /\ pos' = pos + 1
  /\ pc' = IF pos' > BLen(audio_data) - 8 THEN "done" ELSE "scan"
  /\ UNCHANGED <<packVars, stk_exists, stk, audio_data, count, outs>>

\* line 61: the loop's condition fails
ScanEnd ==
  /\ pc = "scan"
  /\ pos >= BLen(audio_data)
  /\ pc' = "done"
  /\ UNCHANGED <<packVars, stk_exists, stk, scanVars>>

(***************************************************************************)
(* Inputs.  The WAV files on disk are built as the wave module itself      *)
(* writes them, with the format tag, channel count, sample width and rate  *)
(* of the file and, for some, one more chunk before the data.              *)
(***************************************************************************)
InWav(tag, nch, width, rate, extra, data) ==
  Cat(<<RIFF, LE32(36 + BLen(extra) + BLen(data)), WAVE,
        FMT_TAG, LE32(16), LE16(tag), LE16(nch), LE32(rate),
        LE32(nch * rate * width), LE16(nch * width), LE16(width * 8),
        extra, DATA_TAG, LE32(BLen(data)), data>>)

\* the length of a normalized file with no audio data
NORM_HEADER == 12 + 24 + BLen(CUE_CHUNK) + BLen(LIST_CHUNK) + 8

\* bounds of the model
MaxFiles == 2

StemLen == 224

LongStemLen == 600

MaxTokens == 5

MaxRepeat == 16

MaxFrames == 2

\* the number of frames of a silent mono file whose normalized length plus
\* ISDT_EXTRA is the number whose four little-endian bytes read "RIFF"
LongFrames == (U32(RIFF) - ISDT_EXTRA - NORM_HEADER) \div 2

\* the files a kit is packed from: two of equal normalized length, a longer
\* stereo one at 24000 Hz, a compressed one, and a long silent one
Asset(id) ==
  CASE id = 1 -> [raw |-> InWav(1, 1, 1, 48000, <<>>, Fill(200, 1)), stem |-> Fill(97, 1)]
    [] id = 2 -> [raw |-> InWav(1, 1, 2, 48000, <<>>, Bytes(<<1, 2>>)), stem |-> Fill(110, StemLen)]
    [] id = 3 -> [raw |-> InWav(1, 2, 2, 24000, <<>>, Bytes(<<1, 2, 3, 4, 5, 6, 7, 128>>)),
                  stem |-> Fill(109, LongStemLen)]
    [] id = 4 -> [raw |-> InWav(2, 1, 2, 48000, <<>>, Fill(0, 2)), stem |-> Fill(120, 1)]
    [] id = 5 -> [raw |-> InWav(1, 1, 2, 48000, <<>>, Fill(0, 2 * LongFrames)), stem |-> Fill(98, 1)]

\* every list of at most MaxFiles of the first four files
ShortLists == UNION {[1..n -> 1..4] : n \in 0..MaxFiles}

\* lists with the long silent file (packed mono, next to a shorter file)
LongLists == {<<1, 5>>, <<5, 2>>, <<3, 5, 1>>}

\* full and overfull lists
FullLists ==
  {[i \in 1..n |-> IF i = n THEN last ELSE IF i % 2 = 1 THEN 1 ELSE 3] :
     n \in {KIT_SLOTS, KIT_SLOTS + 1}, last \in {2, 4}}

FileList(ids) == Tup([i \in 1..Len(ids) |-> Asset(ids[i])])

InitIdle ==
  /\ converted = <<>>
  /\ names = <<>>
  /\ params = <<>>
  /\ ktdt = <<>>
  /\ audio_data = <<>>
  /\ pos = 0
  /\ count = 0
  /\ outs = <<>>

\* a kit is packed from files, then extracted
Init ==
  /\ pc = "pick"
  /\ \E ids \in ShortLists \cup LongLists \cup FullLists :
       /\ files = FileList(ids)
       /\ channels \in IF ids \in LongLists THEN {1} ELSE {1, 2}
  /\ customize \in BOOLEAN
  /\ title = Fill(75, 1)
  /\ stk_exists = FALSE
  /\ stk = <<>>
  /\ InitIdle

\* The file _write_stk writes ends with two zero bytes after whole payloads, so
\* the scan of it never meets a signature without its length bytes and leaves
\* the loop through line 76 or line 81: ScanFault and ScanEnd are steps of
\* SpecExtract, below, which scans any file.
Next ==
  \/ PickSelect
  \/ Convert
  \/ Pad
  \/ Customize
  \/ BuildKtdt
  \/ WriteStk
  \/ ExtractOpen
  \/ ScanEmit
  \/ ScanSkip

Spec == Init /\ [][Next]_vars

(***************************************************************************)
(* extract_wavs on any kit file: the leading region, then signatures,      *)
(* length bytes and other bytes in every order, or one unit many times.    *)
(***************************************************************************)
Token(t) ==
  CASE t = 1 -> RIFF
    [] t = 2 -> Fill(0, 1)
    [] t = 3 -> Fill(2, 1)
    [] t = 4 -> Fill(0, 3)

Tails == UNION {[1..n -> 1..4] : n \in 0..MaxTokens}

TailBytes(ts) == Cat([i \in 1..Len(ts) |-> Token(ts[i])])

\* a sub-stream with no content, and one of one byte before a padding byte
Unit(u) ==
  CASE u = 1 -> BCat(RIFF, LE32(0))
    [] u = 2 -> Cat(<<RIFF, LE32(1), Fill(7, 1), Fill(0, 1)>>)

RECURSIVE Repeat(_, _)
Repeat(x, n) == IF n = 0 THEN <<>> ELSE BCat(Repeat(x, n - 1), x)

KitFiles ==
  {BCat(Fill(0, AUDIO_OFFSET), TailBytes(ts)) : ts \in Tails}
    \cup {BCat(Fill(0, AUDIO_OFFSET), Repeat(Unit(u), n)) : u \in 1..2, n \in 0..MaxRepeat}
    \cup {Fill(0, AUDIO_OFFSET - 1), BCat(Fill(0, 8), RIFF)}

InitKit ==
  /\ pc = "packed"
  /\ files = <<>>
  /\ channels = 2
  /\ customize = FALSE
  /\ title = <<>>
  /\ \/ stk_exists = TRUE /\ stk \in KitFiles
     \/ stk_exists = FALSE /\ stk = <<>>
  /\ InitIdle

NextExtract ==
  \/ ExtractOpen
  \/ ScanEmit
  \/ ScanFault
  \/ ScanSkip
  \/ ScanEnd

SpecExtract == InitKit /\ [][NextExtract]_vars

(***************************************************************************)
(* _to_pcm16_48k on a file, then on what it returned.                      *)
(***************************************************************************)
\* a LIST chunk of odd size, with its padding byte
OddChunk == Bytes(<<76, 73, 83, 84, 3, 0, 0, 0, 97, 98, 99, 0>>)

\* n bytes of audio data
SomeData(n) == Bytes(Tup([j \in 1..n |-> (j * 77 + 123) % 256]))

NormInputs ==
  {InWav(tag, nch, width, rate, extra, SomeData(nfr * nch * width)) :
     tag \in {1, 2}, nch \in {1, 2}, width \in {1, 2, 3},
     rate \in {24000, 44100, TARGET_RATE, 96000}, extra \in {<<>>, OddChunk},
     nfr \in 0..MaxFrames}

InitNorm ==
  /\ pc = "norm"
  /\ \E raw \in NormInputs : files = <<[raw |-> raw, stem |-> Fill(97, 1)]>>
  /\ channels \in {1, 2}
  /\ customize = FALSE
  /\ title = <<>>
  /\ stk_exists = FALSE
  /\ stk = <<>>
  /\ InitIdle

\* _to_pcm16_48k(x, channels), x the file or the last result
Normalize ==
  /\ pc = "norm"
  /\ Len(converted) < 2
  /\ LET x == IF converted = <<>> THEN files[1].raw ELSE converted[Len(converted)]
         r == to_pcm16_48k(x, channels)
     IN  IF r.ok
         THEN converted' = Append(converted, r.wav) /\ pc' = pc
         ELSE pc' = "exit" /\ UNCHANGED converted
  /\ UNCHANGED <<files, channels, customize, title, names, params, ktdt, scanVars,
                 stk_exists, stk>>

NextNorm == Normalize

SpecNorm == InitNorm /\ [][NextNorm]_vars

(***************************************************************************)
(* The pitch prompt of _customize_samples, then _build_ktdt.               *)
(***************************************************************************)
PITCH_MIN == 0 - 1200

PITCH_MAX == 1200

\* how far past the accepted range the typed values go
Beyond == 2

InitPitch ==
  /\ pc = "customize"
  /\ files = <<Asset(1)>>
  /\ channels = 1
  /\ customize = TRUE
  /\ title = Fill(75, 1)
  /\ LET r == PadSamples(<<to_pcm16_48k(Asset(1).raw, 1).wav>>, <<Asset(1).stem>>)
     IN  converted = r.wavs /\ names = r.names
  /\ params = <<>>
  /\ ktdt = <<>>
  /\ stk_exists = FALSE
  /\ stk = <<>>
  /\ audio_data = <<>>
  /\ pos = 0
  /\ count = 0
  /\ outs = <<>>

\* lines 295-312: get_input("Pitch", 'pitch', -1200, 1200) asks again for a value
\* out of range; the other prompts are answered with Enter
CustomizePitch ==
  /\ pc = "customize"
  /\ \E val \in (PITCH_MIN - Beyond)..(PITCH_MAX + Beyond) :
       IF PITCH_MIN <= val /\ val <= PITCH_MAX
       THEN /\ params' = [i \in 1..Len(converted) |->
                            [volume |-> 100, pitch |-> val, pan |-> 0, fx_send |-> 0]]
            /\ pc' = "build"
       ELSE UNCHANGED <<params, pc>>
  /\ UNCHANGED <<files, channels, customize, title, converted, names, ktdt, scanVars,
                 stk_exists, stk>>

NextPitch ==
  \/ CustomizePitch
  \/ BuildKtdt

SpecPitch == InitPitch /\ [][NextPitch]_vars

(***************************************************************************)
(* Properties.                                                             *)
(***************************************************************************)
\* where the kit file has payload i (zero-based) of ws, and its block header
RECURSIVE PayloadAt(_, _)
PayloadAt(ws, i) ==
  IF i = 0 THEN 32 + KTDT_SIZE
  ELSE PayloadAt(ws, i - 1) + BLen(ws[i]) + 2 + 16

HeaderAt(ws, i) == IF i = 0 THEN 32 + 4212 ELSE PayloadAt(ws, i) - 16

RECURSIVE Stream(_, _, _)
\* the payloads of a kit file, read through the block headers: hdr is the
\* offset of a block header, at that of its payload
Stream(file, hdr, at) ==
  IF BSlice(file, hdr, hdr + 4) # ISDT THEN <<>>
  ELSE LET len == U32(BSlice(file, hdr + 4, hdr + 8)) - ISDT_EXTRA
           next == at + len + 2
       IN  <<BSlice(file, at, at + len)>> \o Stream(file, next, next + 16)

\* _to_pcm16_48k of the selected files
Normalized == [i \in 1..Len(Selected) |-> to_pcm16_48k(Selected[i].raw, channels)]

\* C1: round trip: the extractor, run on the packed kit, writes 15 files, the
\* i-th byte for byte the i-th normalized payload packed
C1_RoundTrip ==
  pc = "done" => Len(outs) = KIT_SLOTS /\ outs = converted

\* C2: a successful pack has exactly 15 payloads and names from _pick_samples,
\* 15 entries of 280 bytes in the table (the footer follows the 15th), and 15
\* payloads in the file, after which only the two closing bytes follow
C2_FifteenSlots ==
  /\ pc \in {"customize", "build", "write", "packed"} =>
       Len(converted) = KIT_SLOTS /\ Len(names) = KIT_SLOTS
  /\ pc = "write" =>
       /\ BLen(ktdt) = KTDT_SIZE
       /\ \A i \in 0..(KIT_SLOTS - 1) :
            BSlice(ktdt, i * ENTRY_SIZE, i * ENTRY_SIZE + BLen(ROOT)) = ROOT
       /\ BSlice(ktdt, KIT_SLOTS * ENTRY_SIZE, KIT_SLOTS * ENTRY_SIZE + 12) = KTDT_FOOTER
  /\ pc = "packed" =>
       LET got == Stream(stk, 32 + 4212, 32 + KTDT_SIZE)
       IN  /\ Len(got) = KIT_SLOTS
           /\ got = converted
           /\ BLen(stk) = PayloadAt(got, KIT_SLOTS - 1) + BLen(got[KIT_SLOTS]) + 2

C2_Witness ==
  /\ pc = "packed"
  /\ Len(files) = 2
  /\ Len(Stream(stk, 32 + 4212, 32 + KTDT_SIZE)) = KIT_SLOTS

\* C3: with k < 15 files, positions 0..k-1 hold the normalized files in their
\* order and positions k..14 all hold one of them: the first of those of the
\* smallest byte length
C3_PadWithSmallest ==
  (pc \in {"customize", "build"} /\ Len(Selected) < KIT_SLOTS) =>
    LET k == Len(Selected)
    IN  /\ \A i \in 1..k : converted[i] = Normalized[i].wav
        /\ \E m \in 1..k :
             /\ \A j \in 1..k : BLen(Normalized[m].wav) <= BLen(Normalized[j].wav)
             /\ \A j \in 1..(m - 1) : BLen(Normalized[j].wav) > BLen(Normalized[m].wav)
             /\ \A i \in (k + 1)..KIT_SLOTS : converted[i] = Normalized[m].wav

C3_Witness ==
  /\ pc = "build"
  /\ Len(Selected) = 2
  /\ BLen(converted[1]) = BLen(converted[2])
  /\ converted[1] # converted[2]
  /\ converted[KIT_SLOTS] = converted[1]

\* C4: in the packed file every block header carries the length of the payload
\* after it plus 18 and that payload's zero-based position; the header of
\* payload 0 is the one at the end of the table
C4_BlockHeaders ==
  pc = "packed" =>
    \A i \in 0..(Len(converted) - 1) :
      LET h == HeaderAt(converted, i)
          at == PayloadAt(converted, i)
      IN  /\ BSlice(stk, h, h + 4) = ISDT
          /\ U32(BSlice(stk, h + 4, h + 8)) = BLen(converted[i + 1]) + 18
          /\ U32(BSlice(stk, h + 8, h + 12)) = i
          /\ BSlice(stk, at, at + BLen(converted[i + 1])) = converted[i + 1]

C4_Witness ==
  /\ pc = "packed"
  /\ Len(converted) = KIT_SLOTS
  /\ BLen(converted[1]) # BLen(converted[2])
  /\ U32(BSlice(stk, HeaderAt(converted, 2) + 8, HeaderAt(converted, 2) + 12)) = 2

\* C5: every file the extractor writes is as long as the length after its
\* signature says, plus 8
C5_DeclaredLength ==
  \A i \in 1..Len(outs) : BLen(outs[i]) = U32(BSlice(outs[i], 4, 8)) + 8

\* C6: in every entry of the table the path lies in bytes 0..255 and ends with
\* a zero byte (a path longer than 256 bytes is its first 255 bytes and a zero
\* byte), bytes 256..279 are the parameter record, and the table keeps its size
C6_PathField ==
  pc = "write" =>
    /\ BLen(ktdt) = KTDT_SIZE
    /\ \A i \in 0..(KIT_SLOTS - 1) :
         LET path == MakePath(title, names[i + 1])
             entry == BSlice(ktdt, i * ENTRY_SIZE, (i + 1) * ENTRY_SIZE)
         IN  /\ IF BLen(path) > 256
                THEN BSlice(entry, 0, 256) = BCat(BSlice(path, 0, 255), Fill(0, 1))
                ELSE BSlice(entry, 0, 256) = BCat(path, Fill(0, 256 - BLen(path)))
             /\ BAt(entry, 255) = 0
             /\ BSlice(entry, 256, 280) = EntrySuffix(params, i)

C6_Witness ==
  /\ pc = "write"
  /\ params # <<>>
  /\ BLen(MakePath(title, names[1])) = 256
  /\ BLen(MakePath(title, names[3])) > 256
  /\ BAt(ktdt, 2 * ENTRY_SIZE + 254) # 0

\* C7: normalizing a normalized file succeeds and returns it unchanged
C7_Idempotent ==
  /\ (pc = "exit" => converted = <<>>)
  /\ (Len(converted) = 2 => converted[2] = converted[1])

C7_Witness ==
  /\ Len(converted) = 2
  /\ channels = 1
  /\ WaveRead(files[1].raw).nch = 2
  /\ WaveRead(files[1].raw).sampwidth = 3
  /\ WaveRead(files[1].raw).fr = 44100
  /\ BLen(converted[2]) > NORM_HEADER

\* C8: the kit file exists only after the write step, and the write step is
\* reached only when every selected file normalized; a run that ends with an
\* error leaves no file
C8_NoFileOnFailure ==
  /\ pc \in {"write", "packed"} => \A i \in 1..Len(Selected) : Normalized[i].ok
  /\ pc \in {"pick", "convert", "customize", "build", "write", "exit", "nofile"} => ~stk_exists

C8_Witness ==
  /\ pc = "exit"
  /\ Len(converted) = 1
  /\ ~Normalized[2].ok
  /\ ~stk_exists

\* the integer nearest to x / y, for y > 0 and x / y never halfway
RoundDiv(x, y) == (2 * x + y) \div (2 * y)

\* the signed 16-bit value of two bytes
S16(x) == IF U16(x) >= 32768 THEN U16(x) - 65536 ELSE U16(x)

\* C9: bytes 17-18 of a slot's parameter record hold round(cents * 256 / 100)
C9_PitchRounded ==
  pc = "write" =>
    /\ S16(BSlice(ktdt, PATH_SIZE + 17, PATH_SIZE + 19)) = RoundDiv(params[1].pitch * 256, 100)
    /\ RoundDiv(params[1].pitch * 256, 100) \in (0 - 32768)..32767

\* C10: no kit file makes the scan fault
C10_NoFault == pc # "fault"

\* the path field of entry i (zero-based) of a table
PathField(table, i) == BSlice(table, i * ENTRY_SIZE, i * ENTRY_SIZE + PATH_SIZE)

\* C11: with fewer than 15 files of pairwise distinct names, the 15 path
\* fields of the table are pairwise distinct
C11_DistinctPaths ==
  (/\ pc = "write"
   /\ Len(Selected) < KIT_SLOTS
   /\ \A i, j \in 1..Len(Selected) : i # j => Selected[i].stem # Selected[j].stem) =>
    \A i, j \in 0..(KIT_SLOTS - 1) : i # j => PathField(ktdt, i) # PathField(ktdt, j)

\* C12: bytes 4..8 of every file _to_pcm16_48k returns hold the number of bytes
\* after them: the file's length minus 8
C12_RiffLength ==
  \A i \in 1..Len(converted) :
    /\ BSlice(converted[i], 0, 4) = RIFF
    /\ U32(BSlice(converted[i], 4, 8)) = BLen(converted[i]) - 8
    /\ U32(BSlice(converted[i], 4, 8)) =
         4 + 24 + BLen(CUE_CHUNK) + BLen(LIST_CHUNK) + 8
           + U32(BSlice(converted[i], NORM_HEADER - 4, NORM_HEADER))

C12_Witness ==
  /\ pc = "norm"
  /\ Len(converted) = 1
  /\ BLen(files[1].raw) > 44 + BLen(OddChunk)
  /\ WaveRead(files[1].raw).fr = 96000
  /\ BLen(converted[1]) > NORM_HEADER
  /\ U32(BSlice(converted[1], 4, 8)) # U32(BSlice(files[1].raw, 4, 8))

====
